---- MODULE Spec2Model ----
(***************************************************************************)
(* The enrichment-and-quality-assurance engine of agri-pipeline:           *)
(* pipeline/transform.py (transform_data and its five stages) and          *)
(* pipeline/validation.py (validate_data), run in the order of             *)
(* run_pipeline.py.                                                        *)
(*                                                                         *)
(* Numbers.  The code computes in float64; the model computes in exact     *)
(* real arithmetic.  A number is NaN (the empty tuple, pandas' null) or a  *)
(* tuple <<p, q, d, vn, vd>> with d > 0 that stands for                    *)
(* (p + q*sqrt(vn/vd))/d.  The standard deviation of a group is the square *)
(* root of a rational and in general irrational, so the clip bounds        *)
(* mean +- 3*std are kept in this form, and every comparison is decided    *)
(* exactly.  A rational has q = 0 and the radicand 0/1.  Rounding of       *)
(* float64 is outside the model.                                           *)
(***************************************************************************)
EXTENDS Integers, Sequences, FiniteSets, TLC

VARIABLES
    raw,        \* the caller's raw dataset: a sequence of rows
    rawNone,    \* TRUE when the caller passed None instead of a dataset
    pc,         \* position of the run inside run_pipeline.main / transform_data
    df,         \* the working frame of transform_data
    out,        \* the value transform_data returned
    report,     \* the report artifact at report_path
    ret,        \* the value validate_data returned
    valueType,  \* the pandas dtype that stores the column value of the dataset
    rawDir,     \* the raw directory: what each file name holds
    checkpoint, \* processed_files in the file at CHECKPOINT_PATH
    processed_files, \* ingest_data's local set of that name
    todo,       \* the files the loop of ingest_data has still to visit
    all_data,   \* the files whose frames ingest_data has appended in this run
    stored,     \* processed storage: the rows held by each parquet path
    written,    \* the source files of which a row was ever written to storage
    ckptAtStart, \* the checkpoint as the current run of ingest_data loaded it
    lost,       \* the files read by a run that failed after ingestion
    runs        \* the number of pipeline runs started

\* the state of ingestion and storage
ivars == <<rawDir, checkpoint, processed_files, todo, all_data, stored, written,
           ckptAtStart, lost, runs>>

vars == <<raw, rawNone, pc, df, out, report, ret, valueType, ivars>>

-----------------------------------------------------------------------------
(* Exact arithmetic *)

NaN == <<>>

IsNaN(x) == x = NaN

Abs(n) == IF n < 0 THEN -n ELSE n

Sgn(n) == IF n < 0 THEN -1 ELSE IF n > 0 THEN 1 ELSE 0

RECURSIVE Gcd(_, _)
Gcd(a, b) == IF b = 0 THEN a ELSE Gcd(b, a % b)

\* floor of the square root of a natural number, by bisection on lo..hi
RECURSIVE ISqrtIn(_, _, _)
ISqrtIn(n, lo, hi) ==
    IF lo >= hi THEN lo
    ELSE LET mid == (lo + hi + 1) \div 2
         IN  IF mid <= n \div mid THEN ISqrtIn(n, mid, hi) ELSE ISqrtIn(n, lo, mid - 1)

ISqrt(n) == IF n < 2 THEN n ELSE ISqrtIn(n, 1, n)

IsSquare(n) == ISqrt(n) * ISqrt(n) = n

\* (p + q*sqrt(vn/vd))/d in canonical form: lowest terms, a positive
\* denominator, and a rational square root folded into the rational part, so
\* that equal numbers of one radicand are equal tuples
Mk(p, q, d, vn, vd) ==
    LET gv == Gcd(Abs(vn), Abs(vd))
        n  == vn \div gv
        m  == vd \div gv
        rational == q = 0 \/ n = 0 \/ (IsSquare(n) /\ IsSquare(m))
        pp == IF q = 0 \/ n = 0 THEN p ELSE IF rational THEN p * ISqrt(m) + q * ISqrt(n) ELSE p
        dd == IF q = 0 \/ n = 0 THEN d ELSE IF rational THEN d * ISqrt(m) ELSE d
        qq == IF rational THEN 0 ELSE q
        g  == Gcd(Gcd(Abs(pp), Abs(qq)), Abs(dd))
        s  == IF dd < 0 THEN -1 ELSE 1
    IN  <<(s * pp) \div g, (s * qq) \div g, (s * dd) \div g,
          IF rational THEN 0 ELSE n, IF rational THEN 1 ELSE m>>

Rat(n, d) == Mk(n, 0, d, 0, 1)

Num(n) == Rat(n, 1)

Zero == Num(0)

IsRational(x) == x[2] = 0

\* two numbers can be added when they are rationals or share their radicand;
\* the pipeline never adds others (the numbers it adds share a reading type)
Commensurable(x, y) == IsRational(x) \/ IsRational(y) \/ (x[4] = y[4] /\ x[5] = y[5])

NAdd(x, y) ==
    IF IsNaN(x) \/ IsNaN(y) THEN NaN
    ELSE IF ~Commensurable(x, y) THEN NaN
    ELSE LET r == IF IsRational(x) THEN y ELSE x
         IN  Mk(x[1] * y[3] + y[1] * x[3], x[2] * y[3] + y[2] * x[3], x[3] * y[3], r[4], r[5])

NNeg(x) == IF IsNaN(x) THEN NaN ELSE <<-x[1], -x[2], x[3], x[4], x[5]>>

NSub(x, y) == NAdd(x, NNeg(y))

\* x * (n/d) for a rational factor
NScale(x, n, d) == IF IsNaN(x) THEN NaN ELSE Mk(x[1] * n, x[2] * n, x[3] * d, x[4], x[5])

\* the square of a rational
NSq(x) == IF IsNaN(x) THEN NaN ELSE Rat(x[1] * x[1], x[3] * x[3])

\* the square root of a rational v >= 0
NSqrt(v) == IF IsNaN(v) THEN NaN ELSE Mk(0, 1, 1, v[1], v[3])

\* x / y for a rational x and a y that is a rational or a pure square root, y # 0
NDiv(x, y) ==
    IF IsNaN(x) \/ IsNaN(y) THEN NaN
    ELSE IF IsRational(y) THEN NScale(x, y[3], y[1])
    ELSE Mk(0, x[1] * y[3] * y[5], x[3] * y[2] * y[4], y[4], y[5])

\* the sign of x
Sign(x) ==
    LET p == x[1]
        q == x[2]
    IN  IF q = 0 THEN Sgn(p)
        ELSE IF p = 0 THEN Sgn(q)
        ELSE IF Sgn(p) = Sgn(q) THEN Sgn(p)
        ELSE LET l == p * p * x[5]
                 r == q * q * x[4]
             IN  IF l > r THEN Sgn(p) ELSE IF l < r THEN Sgn(q) ELSE 0

\* x < y and x <= y (false when either is NaN, as in numpy)
NLt(x, y) == ~IsNaN(NSub(x, y)) /\ Sign(NSub(x, y)) < 0

NLe(x, y) == ~IsNaN(NSub(x, y)) /\ Sign(NSub(x, y)) <= 0

RECURSIVE SumSeq(_)
SumSeq(s) == IF s = <<>> THEN Zero ELSE NAdd(Head(s), SumSeq(Tail(s)))

\* Series.mean(): NaN entries are skipped; NaN when nothing is left
NotNaN(x) == ~IsNaN(x)

Mean(s) ==
    LET t == SelectSeq(s, NotNaN)
    IN  IF t = <<>> THEN NaN ELSE NScale(SumSeq(t), 1, Len(t))

RECURSIVE SqDev(_, _)
SqDev(s, mu) ==
    IF s = <<>> THEN <<>>
    ELSE <<NSq(NSub(Head(s), mu))>> \o SqDev(Tail(s), mu)

-----------------------------------------------------------------------------
(* Configuration tables, pipeline/utils.py *)

\* CALIBRATION.get(reading_type, {"multiplier": 1.0, "offset": 0.0})
CALIBRATION(t) ==
    CASE t = "temperature"     -> [multiplier |-> Rat(101, 100), offset |-> Rat(-2, 10)]
      [] t = "humidity"        -> [multiplier |-> Rat(100, 100), offset |-> Rat(0, 10)]
      [] t = "soil_moisture"   -> [multiplier |-> Rat(98, 100),  offset |-> Rat(5, 10)]
      [] t = "light_intensity" -> [multiplier |-> Rat(100, 100), offset |-> Rat(0, 10)]
      [] OTHER                 -> [multiplier |-> Rat(10, 10),   offset |-> Rat(0, 10)]

RangedTypes == {"temperature", "humidity", "soil_moisture", "light_intensity", "battery_level"}

\* EXPECTED_RANGES[reading_type], defined for the types of RangedTypes
EXPECTED_RANGES(t) ==
    CASE t = "temperature"     -> [min |-> Num(-10), max |-> Num(60)]
      [] t = "humidity"        -> [min |-> Num(0),   max |-> Num(100)]
      [] t = "soil_moisture"   -> [min |-> Num(0),   max |-> Num(1)]
      [] t = "light_intensity" -> [min |-> Num(0),   max |-> Num(2000)]
      [] t = "battery_level"   -> [min |-> Num(0),   max |-> Num(100)]

-----------------------------------------------------------------------------
(* Raw values.  A text field is a string, None is NullStr.  A raw timestamp  *)
(* is the text of a UTC day, hour and minute <<day, hh, mm>>, None (the      *)
(* empty tuple) or a text that is no timestamp, BadTs.                       *)

NullStr == "NULL"

NullTs == <<>>

BadTs == <<-1>>

NaT == <<>>

MinutesPerHour == 60

MinutesPerDay == 1440

\* the text of the instant m minutes after the epoch
TsText(m) == <<m \div MinutesPerDay, (m % MinutesPerDay) \div MinutesPerHour, m % MinutesPerHour>>

Key(r) == <<r.sensor_id, r.timestamp, r.reading_type>>

RECURSIVE Reverse(_)
Reverse(s) == IF s = <<>> THEN <<>> ELSE Reverse(Tail(s)) \o <<Head(s)>>

\* the subsequence of s at the positions i >= the given one with keep[i] true
RECURSIVE Filter(_, _, _)
Filter(s, keep, i) ==
    IF i > Len(s) THEN <<>>
    ELSE (IF keep[i] THEN <<s[i]>> ELSE <<>>) \o Filter(s, keep, i + 1)

\* the column f of a frame, in row order
Col(frame, f) == [i \in DOMAIN frame |-> frame[i][f]]

\* frame with the column f set to col (append-only when f is new)
WithCol(frame, f, col) ==
    [i \in DOMAIN frame |->
        [g \in (DOMAIN frame[i]) \cup {f} |-> IF g = f THEN col[i] ELSE frame[i][g]]]

-----------------------------------------------------------------------------
(* transform_data, lines 164-171: the guard, deduplication, the null filter  *)
(* and battery imputation                                                    *)

\* DataFrame.drop_duplicates(subset): keep="first"; null keys compare equal to
\* each other; keys[i] is the subset of row i.  Line 167 drops on
\* (sensor_id, timestamp, reading_type).
DropDuplicatesOn(frame, keys) ==
    LET first(i) == \A j \in 1..(i - 1) : keys[j] # keys[i]
    IN  Filter(frame, [idx \in DOMAIN frame |-> first(idx)], 1)

DropDuplicates(frame) == DropDuplicatesOn(frame, [i \in DOMAIN frame |-> Key(frame[i])])

\* df.dropna(subset=[sensor_id, timestamp, reading_type, value])
DropNa(frame) ==
    LET complete(i) ==
            /\ frame[i].sensor_id # NullStr
            /\ frame[i].timestamp # NullTs
            /\ frame[i].reading_type # NullStr
            /\ ~IsNaN(frame[i].value)
    IN  Filter(frame, [idx \in DOMAIN frame |-> complete(idx)], 1)

RECURSIVE FFillFrom(_, _)
FFillFrom(s, last) ==
    IF s = <<>> THEN <<>>
    ELSE LET h == IF IsNaN(Head(s)) THEN last ELSE Head(s)
         IN  <<h>> \o FFillFrom(Tail(s), h)

\* Series.fillna(method="ffill")
FFill(s) == FFillFrom(s, NaN)

\* Series.fillna(method="bfill")
BFill(s) == Reverse(FFill(Reverse(s)))

\* Series.fillna(v); fillna(NaN) changes nothing
FillNa(s, v) == [i \in DOMAIN s |-> IF IsNaN(s[i]) THEN v ELSE s[i]]

\* a variant of FillBattery that fills backward before forward; C17 tells the
\* two apart
FillBattery_bfill_first(frame) ==
    LET b == Col(frame, "battery_level")
    IN  IF \E i \in DOMAIN b : IsNaN(b[i])
        THEN WithCol(frame, "battery_level", FillNa(FFill(BFill(b)), Mean(b)))
        ELSE frame

\* lines 169-171; the column is always present (ingestion enforces the schema).
\* The mean is taken of the column before any fill.
FillBattery(frame) ==
    LET b == Col(frame, "battery_level")
    IN  IF \E i \in DOMAIN b : IsNaN(b[i])
        THEN WithCol(frame, "battery_level", FillNa(BFill(FFill(b)), Mean(b)))
        ELSE frame

-----------------------------------------------------------------------------
(* 4.1 _apply_calibration *)

\* a variant of calibrate that adds the offset before it multiplies; C15 tells
\* the two apart
calibrate_offset_first(row) ==
    LET params == CALIBRATION(row.reading_type)
    IN  NScale(NAdd(row.value, params.offset), params.multiplier[1], params.multiplier[3])

\* calibrate(row): value * multiplier + offset
calibrate(row) ==
    LET params == CALIBRATION(row.reading_type)
    IN  NAdd(NScale(row.value, params.multiplier[1], params.multiplier[3]), params.offset)

\* df["value_calibrated"] = df.apply(calibrate, axis=1).  On a frame without
\* rows DataFrame.apply reduces to an empty Series, and the column is added.
ApplyCalibrationCol(frame) == [i \in DOMAIN frame |-> calibrate(frame[i])]

-----------------------------------------------------------------------------
(* 4.2 _zscore_outliers *)

SigmaFactor == 3

MinGroupSize == 3

ReadingTypes(frame) == {frame[i].reading_type : i \in DOMAIN frame}

\* the rows of one reading_type group, in row order
GroupRows(frame, t) ==
    LET member(i) == frame[i].reading_type = t
    IN  Filter(frame, [idx \in DOMAIN frame |-> member(idx)], 1)

\* value_calibrated over the reading_type group t
GroupValues(frame, t) == Col(GroupRows(frame, t), "value_calibrated")

\* Series.std(ddof=0): the square root of the mean squared deviation
StdPop(s) == IF s = <<>> THEN NaN ELSE NSqrt(Mean(SqDev(s, Mean(s))))

\* a variant of Describe with Series.std()'s default, the sample standard
\* deviation (ddof=1, NaN for a single value); C2 tells the two apart
Describe_ddof1(s) ==
    [len  |-> Len(s),
     mean |-> Mean(s),
     std  |-> IF Len(s) < 2 THEN NaN
              ELSE NSqrt(NScale(SumSeq(SqDev(s, Mean(s))), 1, Len(s) - 1))]

\* what the two helpers take of a group s: len(s), s.mean(), s.std(ddof=0)
Describe(s) == [len |-> Len(s), mean |-> Mean(s), std |-> StdPop(s)]

\* the statistics of every reading_type group of the frame
GroupStats(frame) ==
    [t \in ReadingTypes(frame) |-> Describe(GroupValues(frame, t))]

\* zscore(s) of line 66, for the member x of a group with statistics g
zscore(g, x) ==
    IF g.std = Zero \/ g.len < MinGroupSize THEN Zero
    ELSE NDiv(NSub(x, g.mean), g.std)

\* Series.clip(lower=lo, upper=hi)
Clip(x, lo, hi) ==
    IF NLt(x, lo) THEN lo ELSE IF NLt(hi, x) THEN hi ELSE x

\* correct(group) of line 71, for the member x of a group with statistics g
correct(g, x) ==
    IF g.std = Zero \/ IsNaN(g.std) THEN x
    ELSE LET hi == NAdd(g.mean, NScale(g.std, SigmaFactor, 1))
             lo == NSub(g.mean, NScale(g.std, SigmaFactor, 1))
         IN  Clip(x, lo, hi)

\* df.groupby("reading_type")["value_calibrated"].transform(zscore)
ZscoreCol(frame) ==
    LET stats == GroupStats(frame)
    IN  [i \in DOMAIN frame |-> zscore(stats[frame[i].reading_type], frame[i].value_calibrated)]

\* df.groupby("reading_type", group_keys=False).apply(correct), line 79.
\* correct returns a Series on the group's own row labels.  groupby.apply
\* concatenates such results into one Series on the frame's row labels only
\* when the groups' results differ in their labels, that is when there are at
\* least two groups.  With one group it stacks the single result into a frame
\* of one row (labelled by the group key) and one column per member; with no
\* group it returns a frame without rows that has the columns of df.
GroupByApplyCorrect(frame) ==
    LET types == ReadingTypes(frame)
        stats == GroupStats(frame)
    IN  IF Cardinality(types) >= 2
        THEN [shape |-> "series",
              col   |-> [i \in DOMAIN frame |->
                            correct(stats[frame[i].reading_type], frame[i].value_calibrated)]]
        ELSE [shape |-> "frame",
              ncols |-> IF types = {}
                        THEN Cardinality({"sensor_id", "timestamp", "reading_type", "value",
                                          "battery_level", "value_calibrated", "zscore"})
                        ELSE Len(frame)]

\* df["value_corrected"] = <result of apply>.  A Series is aligned on the row
\* labels.  A frame of exactly one column is taken as that column and aligned
\* on the row labels: its one label is the group key, which is no row label of
\* df, so every row gets NaN.  A frame of any other width raises ValueError.
SetValueCorrected(frame, res) ==
    IF res.shape = "series"
    THEN [raised |-> FALSE, frame |-> WithCol(frame, "value_corrected", res.col)]
    ELSE IF res.ncols = 1
    THEN [raised |-> FALSE,
          frame  |-> WithCol(frame, "value_corrected", [i \in DOMAIN frame |-> NaN])]
    ELSE [raised |-> TRUE, frame |-> frame]

\* _zscore_outliers(df): the column zscore, then the column value_corrected
OutlierStage(frame) ==
    LET z == WithCol(frame, "zscore", ZscoreCol(frame))
    IN  SetValueCorrected(z, GroupByApplyCorrect(z))

-----------------------------------------------------------------------------
(* 4.3 _flag_anomaly *)

\* a variant of is_anom that tests the clipped value; C4 tells the two apart
is_anom_of_corrected(row) ==
    IF row.reading_type \notin RangedTypes \/ IsNaN(row.value_corrected) THEN FALSE
    ELSE LET r == EXPECTED_RANGES(row.reading_type)
         IN  \/ NLt(row.value_corrected, r.min)
             \/ NLt(r.max, row.value_corrected)

\* is_anom(row)
is_anom(row) ==
    IF row.reading_type \notin RangedTypes \/ IsNaN(row.value_calibrated) THEN FALSE
    ELSE LET r == EXPECTED_RANGES(row.reading_type)
         IN  \/ NLt(row.value_calibrated, r.min)
             \/ NLt(r.max, row.value_calibrated)

FlagAnomalyCol(frame) == [i \in DOMAIN frame |-> is_anom(frame[i])]

-----------------------------------------------------------------------------
(* 4.4 _timestamp_processing.  An instant is <<m>>, m minutes after the      *)
(* epoch, or NaT.  A local time is the wall-clock minute count in IST with   *)
(* its offset, <<m + 330, 330>>.                                             *)

IstOffsetMinutes == 330

\* pd.to_datetime(text, utc=True, errors="coerce")
ToDatetimeUtc(ts) ==
    IF Len(ts) = 3
    THEN <<ts[1] * MinutesPerDay + ts[2] * MinutesPerHour + ts[3]>>
    ELSE NaT

\* ts.dt.tz_convert(IST)
TzConvertIst(t) == IF t = NaT THEN NaT ELSE <<t[1] + IstOffsetMinutes, IstOffsetMinutes>>

\* strftime("%Y-%m-%dT%H:%M:%S%z"): day, hour, minute and offset digits hhmm
StrftimeIso(l) ==
    IF l = NaT THEN NaN
    ELSE <<l[1] \div MinutesPerDay, (l[1] % MinutesPerDay) \div MinutesPerHour,
           l[1] % MinutesPerHour,
           ((l[2] \div MinutesPerHour) * 100) + (l[2] % MinutesPerHour)>>

\* A date text: <<0, day>> is "YYYY-MM-DD"; <<1, 0>> is the text "NaT".
DateStr(day) == <<0, day>>

NaTStr == <<1, 0>>

\* a variant of DateText that takes the date of the UTC instant; C12 tells the
\* two apart
DateText_utc(l) == IF l = NaT THEN NaTStr ELSE DateStr((l[1] - l[2]) \div MinutesPerDay)

\* .dt.date.astype(str): the missing date becomes the text "NaT"
DateText(l) == IF l = NaT THEN NaTStr ELSE DateStr(l[1] \div MinutesPerDay)

\* .dt.floor("H")
FloorHour(l) == IF l = NaT THEN NaT ELSE <<l[1] - (l[1] % MinutesPerHour), l[2]>>

\* a variant of TimestampProcessing that also stores the parsed instant in the
\* column timestamp; C14 tells the two apart
TimestampProcessing_inplace(frame) ==
    LET ist == [i \in DOMAIN frame |-> TzConvertIst(ToDatetimeUtc(frame[i].timestamp))]
        f0  == WithCol(frame, "timestamp", [i \in DOMAIN frame |-> ToDatetimeUtc(frame[i].timestamp)])
        f1  == WithCol(f0, "timestamp_ist", ist)
        f2  == WithCol(f1, "timestamp_iso", [i \in DOMAIN frame |-> StrftimeIso(ist[i])])
        f3  == WithCol(f2, "date", [i \in DOMAIN frame |-> DateText(ist[i])])
    IN  WithCol(f3, "hour", [i \in DOMAIN frame |-> FloorHour(ist[i])])

\* _timestamp_processing(df), lines 97-101
TimestampProcessing(frame) ==
    LET ist == [i \in DOMAIN frame |-> TzConvertIst(ToDatetimeUtc(frame[i].timestamp))]
        f1  == WithCol(frame, "timestamp_ist", ist)
        f2  == WithCol(f1, "timestamp_iso", [i \in DOMAIN frame |-> StrftimeIso(ist[i])])
        f3  == WithCol(f2, "date", [i \in DOMAIN frame |-> DateText(ist[i])])
    IN  WithCol(f3, "hour", [i \in DOMAIN frame |-> FloorHour(ist[i])])

-----------------------------------------------------------------------------
(* 4.5 _aggregations *)

RollingWindow == 7

DailyKey(r) == <<r.sensor_id, r.reading_type, r.date>>

SeriesKey(r) == <<r.sensor_id, r.reading_type>>

\* left.merge(right, on=[sensor_id, reading_type, date], how="left") for a right
\* table that carries the one extra column f: a left row is repeated once per
\* matching right row, and kept with a null f when nothing matches
RECURSIVE MergeLeft(_, _, _, _)
MergeLeft(left, right, f, i) ==
    IF i > Len(left) THEN <<>>
    ELSE LET match(j) == DailyKey(right[j]) = DailyKey(left[i])
             hits     == Filter(right, [idx \in DOMAIN right |-> match(idx)], 1)
             with(v)  == [g \in (DOMAIN left[i]) \cup {f} |-> IF g = f THEN v ELSE left[i][g]]
         IN  (IF hits = <<>> THEN <<with(NaN)>>
              ELSE [j \in DOMAIN hits |-> with(hits[j][f])])
             \o MergeLeft(left, right, f, i + 1)

\* a variant of Daily that averages value_calibrated; C5 tells the two apart
Daily_of_calibrated(frame) ==
    LET firsts == DropDuplicatesOn(frame, [i \in DOMAIN frame |-> DailyKey(frame[i])])
        avg(k) == LET member(i) == DailyKey(frame[i]) = k
                  IN  Mean(Col(Filter(frame, [idx \in DOMAIN frame |-> member(idx)], 1), "value_calibrated"))
    IN  [j \in DOMAIN firsts |->
            [sensor_id    |-> firsts[j].sensor_id,
             reading_type |-> firsts[j].reading_type,
             date         |-> firsts[j].date,
             daily_avg    |-> avg(DailyKey(firsts[j]))]]

\* lines 118-123: one row per (sensor_id, reading_type, date) with the mean of
\* value_corrected over the rows of that key
Daily(frame) ==
    LET firsts == DropDuplicatesOn(frame, [i \in DOMAIN frame |-> DailyKey(frame[i])])
        avg(k) == LET member(i) == DailyKey(frame[i]) = k
                  IN  Mean(Col(Filter(frame, [idx \in DOMAIN frame |-> member(idx)], 1), "value_corrected"))
    IN  [j \in DOMAIN firsts |->
            [sensor_id    |-> firsts[j].sensor_id,
             reading_type |-> firsts[j].reading_type,
             date         |-> firsts[j].date,
             daily_avg    |-> avg(DailyKey(firsts[j]))]]

\* the order of date texts: digits sort before the letters of "NaT"
DateLess(a, b) == a[1] < b[1] \/ (a[1] = b[1] /\ a[2] < b[2])

\* sort_values([sensor_id, reading_type, date]), line 128.  Only the order of
\* the dates inside one (sensor_id, reading_type) series is used afterwards
\* (the rolling mean is taken per series and joined back by key), so the
\* entries are put in date order, stably.
RECURSIVE SortByDate(_)
SortByDate(s) ==
    IF s = <<>> THEN <<>>
    ELSE LET least(i) == /\ \A j \in DOMAIN s : ~DateLess(s[j].date, s[i].date)
                         /\ \A j \in 1..(i - 1) : DateLess(s[i].date, s[j].date)
             m        == CHOOSE i \in DOMAIN s : least(i)
             other(i) == i # m
         IN  <<s[m]>> \o SortByDate(Filter(s, [idx \in DOMAIN s |-> other(idx)], 1))

\* pd.to_datetime(date text), line 131: midnight of the day, or NaT
ParseDate(d) == IF d[1] = 0 THEN <<d[2] * MinutesPerDay>> ELSE NaT

\* .dt.date.astype(str), line 138
FormatDate(t) == IF t = NaT THEN NaTStr ELSE DateStr(t[1] \div MinutesPerDay)

\* a variant of RollingMean with an expanding window; C6 tells the two apart
RollingMean_expanding(x, i) == Mean(SubSeq(x, 1, i))

\* x.rolling(7, min_periods=1).mean() at position i of the series x
RollingMean(x, i) ==
    Mean(SubSeq(x, IF i - (RollingWindow - 1) < 1 THEN 1 ELSE i - (RollingWindow - 1), i))

\* lines 126-138: the table daily_series with its rolling_7d column
DailySeries(frame) ==
    LET sorted == SortByDate(DropDuplicatesOn(frame, [i \in DOMAIN frame |-> DailyKey(frame[i])]))
        series(j) == LET member(i) == SeriesKey(sorted[i]) = SeriesKey(sorted[j])
                     IN  Filter(sorted, [idx \in DOMAIN sorted |-> member(idx)], 1)
        \* the position of entry j inside its own series
        pos(j) == Cardinality({i \in 1..j : SeriesKey(sorted[i]) = SeriesKey(sorted[j])})
    IN  [j \in DOMAIN sorted |->
            [sensor_id    |-> sorted[j].sensor_id,
             reading_type |-> sorted[j].reading_type,
             date         |-> FormatDate(ParseDate(sorted[j].date)),
             rolling_7d   |-> RollingMean(Col(series(j), "daily_avg"), pos(j))]]

Aggregations(frame) ==
    LET merged == MergeLeft(frame, Daily(frame), "daily_avg", 1)
    IN  MergeLeft(merged, DailySeries(merged), "rolling_7d", 1)

-----------------------------------------------------------------------------
(* validate_data, pipeline/validation.py.  The queries run on the column     *)
(* timestamp (the raw text) and the column value of the frame it is given.   *)

\* try_cast(timestamp AS TIMESTAMP): NULL for a null or a text that is no timestamp
TryCastTimestamp(ts) ==
    IF Len(ts) = 3
    THEN <<ts[1] * MinutesPerDay + ts[2] * MinutesPerHour + ts[3]>>
    ELSE NaT

\* date_trunc('hour', t) of a non-null t, in minutes
DateTruncHour(m) == m - (m % MinutesPerHour)

SetMin(S) == CHOOSE x \in S : \A y \in S : x <= y

SetMax(S) == CHOOSE x \in S : \A y \in S : x >= y

\* the parsed timestamps of the rows of one (sensor_id, reading_type) pair
ParsedOf(frame, k) ==
    {TryCastTimestamp(frame[i].timestamp)[1] :
        i \in {j \in DOMAIN frame : /\ SeriesKey(frame[j]) = k
                                    /\ TryCastTimestamp(frame[j].timestamp) # NaT}}

\* a variant of GenerateSeries that leaves out max_h; C10 tells the two apart
GenerateSeries_exclusive(parsed) ==
    IF parsed = {} THEN {}
    ELSE LET min_h == DateTruncHour(SetMin(parsed))
             max_h == DateTruncHour(SetMax(parsed))
         IN  {min_h + MinutesPerHour * n : n \in 0..(((max_h - min_h) \div MinutesPerHour) - 1)}

\* generate_series(min_h, max_h, INTERVAL 1 HOUR); no row when the bounds are NULL
GenerateSeries(parsed) ==
    IF parsed = {} THEN {}
    ELSE LET min_h == DateTruncHour(SetMin(parsed))
             max_h == DateTruncHour(SetMax(parsed))
         IN  {min_h + MinutesPerHour * n : n \in 0..((max_h - min_h) \div MinutesPerHour)}

\* the CTE actual: the distinct hours of the pair
ActualHours(parsed) == {DateTruncHour(m) : m \in parsed}

\* the gaps query for one (sensor_id, reading_type) pair k: expected LEFT JOIN
\* actual.  A row of the join is <<expected hour, matching actual hour or
\* NULL>>; the hours of actual are distinct, so an expected hour has at most
\* one match.  COUNT(*) counts the rows, COUNT(a.hour) the rows with a match.
GapsJoin(frame, k) ==
    LET parsed == ParsedOf(frame, k)
        e      == GenerateSeries(parsed)
        a      == ActualHours(parsed)
    IN  {<<h, IF h \in a THEN <<h>> ELSE <<>> >> : h \in e}

\* the gaps query, lines 52-92: one result row per pair that has expected hours
Gaps(frame) ==
    LET pairs == {SeriesKey(frame[i]) : i \in DOMAIN frame}
        joins == [k \in pairs |-> GapsJoin(frame, k)]
        count(k)  == Cardinality(joins[k])
        counta(k) == Cardinality({r \in joins[k] : r[2] # <<>>})
    IN  {[sensor_id      |-> k[1],
          reading_type   |-> k[2],
          expected_hours |-> count(k),
          actual_hours   |-> counta(k),
          missing_hours  |-> count(k) - counta(k)]
         : k \in {p \in pairs : joins[p] # {}}}

\* the query range_checks: MIN(value) and MAX(value) per reading_type
RangeChecks(frame) ==
    LET vals(t) == {frame[i].value : i \in {j \in DOMAIN frame :
                        frame[j].reading_type = t /\ ~IsNaN(frame[j].value)}}
        least(S)    == IF S = {} THEN NaN ELSE CHOOSE x \in S : \A y \in S : NLe(x, y)
        greatest(S) == IF S = {} THEN NaN ELSE CHOOSE x \in S : \A y \in S : NLe(y, x)
    IN  {[reading_type |-> t, min_value |-> least(vals(t)), max_value |-> greatest(vals(t))]
         : t \in ReadingTypes(frame)}

\* the queries missing and profile, per reading_type: COUNT(*) and the null values
Profile(frame) ==
    {[reading_type |-> t,
      total        |-> Len(GroupRows(frame, t)),
      null_values  |-> Cardinality({i \in DOMAIN frame :
                          frame[i].reading_type = t /\ IsNaN(frame[i].value)})]
     : t \in ReadingTypes(frame)}

\* the type duckdb gives a registered pandas column of the dtype
DuckType(dtype) ==
    CASE dtype = "float64" -> "DOUBLE"
      [] dtype = "float32" -> "FLOAT"
      [] dtype = "int64"   -> "BIGINT"
      [] dtype = "int32"   -> "INTEGER"
      [] dtype = "int16"   -> "SMALLINT"
      [] OTHER             -> "VARCHAR"

\* the types of lines 20 and 24
NumericTypeNames == {"DOUBLE", "FLOAT", "DECIMAL", "INTEGER", "HUGEINT"}

TimestampTypeNames == {"VARCHAR", "TIMESTAMP", "TIMESTAMPTZ"}

\* type_checks.invalid_value_type: typeof(value) is the type of the column,
\* the same for every row
InvalidValueType(frame) ==
    IF DuckType(valueType) \in NumericTypeNames THEN 0 ELSE Len(frame)

\* type_checks.invalid_timestamp_storage_type: the column timestamp holds text
InvalidTimestampStorageType(frame) ==
    IF DuckType("object") \in TimestampTypeNames THEN 0 ELSE Len(frame)

\* type_checks.unparsable_timestamp_rows
UnparsableTimestampRows(frame) ==
    Cardinality({i \in DOMAIN frame : TryCastTimestamp(frame[i].timestamp) = NaT})

NoReport ==
    [exists |-> FALSE, stale |-> FALSE, invalid_value_type |-> 0,
     invalid_timestamp_storage_type |-> 0, unparsable |-> 0, range_checks |-> {},
     gaps |-> {}, profile |-> {}]

\* a report left at report_path by an earlier run
StaleReport ==
    [exists |-> TRUE, stale |-> TRUE, invalid_value_type |-> 0,
     invalid_timestamp_storage_type |-> 0, unparsable |-> 0, range_checks |-> {},
     gaps |-> {}, profile |-> {}]

\* open(report_path, "w") and the five sections written to it, lines 107-121
WriteReport(frame) ==
    [exists       |-> TRUE,
     stale        |-> FALSE,
     invalid_value_type |-> InvalidValueType(frame),
     invalid_timestamp_storage_type |-> InvalidTimestampStorageType(frame),
     unparsable   |-> UnparsableTimestampRows(frame),
     range_checks |-> RangeChecks(frame),
     gaps         |-> Gaps(frame),
     profile      |-> Profile(frame)]

\* a variant of validate_data without the guard of lines 6-8; C9 tells the two apart
validate_data_unguarded(frame, rep) == [ret |-> "none", report |-> WriteReport(frame)]

\* validate_data(df, report_path) with rep the state of the file at report_path
\* before the call.  The guard of lines 6-8 returns an empty DataFrame and
\* touches nothing; otherwise the report is written and the function ends
\* without a return statement, so it returns None.
validate_data(frame, rep) ==
    IF Len(frame) = 0
    THEN [ret |-> "empty_frame", report |-> rep]
    ELSE [ret |-> "none", report |-> WriteReport(frame)]

-----------------------------------------------------------------------------
(* The raw datasets of the model *)

MaxSmall == 3

MaxSeries == 12

R(s, ts, t, v, b) ==
    [sensor_id |-> s, timestamp |-> ts, reading_type |-> t, value |-> v, battery_level |-> b]

\* readings with duplicate keys, nulls in every required field, an unparsable
\* timestamp, an out-of-range value and a reading type without configuration
RowPool ==
    { R("s1", <<0, 1, 0>>,  "temperature", Num(25),  Num(80)),
      R("s1", <<0, 1, 0>>,  "temperature", Num(26),  Num(70)),
      R("s1", <<0, 1, 0>>,  "temperature", NaN,      NaN),
      R("s1", <<0, 19, 30>>, "humidity",   Num(150), NaN),
      R("s2", <<0, 1, 0>>,  "humidity",    Num(40),  Num(60)),
      R(NullStr, <<0, 1, 0>>, "temperature", Num(30), Num(50)),
      R("s1", BadTs,        "humidity",    Num(50),  NaN),
      R("s2", NullTs,       "temperature", Num(30),  Num(90)),
      R("s2", <<0, 19, 0>>, "co2",         Num(500), Num(55)),
      R("s1", <<0, 1, 0>>,  NullStr,       Num(1),   Num(10)),
      R("s1", <<0, 19, 45>>, "humidity",   Num(60),  Num(65)) }

RECURSIVE SeqsUpTo(_, _)
SeqsUpTo(S, n) ==
    IF n = 0 THEN {<<>>}
    ELSE LET shorter == SeqsUpTo(S, n - 1)
         IN  shorter \cup {Append(q, x) : q \in {p \in shorter : Len(p) = n - 1}, x \in S}

SmallDatasets == SeqsUpTo(RowPool, MaxSmall)

\* One humidity series of sensor s1: n readings spaced by step minutes from the
\* epoch, the reading at position skip left out, the values cycling 1, 2, 0 with
\* an extreme last value (105, above the humidity range) when big, the battery
\* column with the nulls of bp (90, null, null, 70, ... for "inner");
\* followed by comp temperature readings of sensor s2.
SeriesDataset(n, step, skip, big, comp, bp) ==
    LET kept(i)    == i # skip
        battery(i) == CASE bp = "full"    -> Num(100 - i)
                        [] bp = "none"    -> NaN
                        [] bp = "inner"   -> IF i \in {2, 3} THEN NaN
                                             ELSE IF i = 4 THEN Num(70) ELSE Num(91 - i)
                        [] bp = "leading" -> IF i = 1 THEN NaN ELSE Num(100 - i)
        all == [i \in 1..n |->
                   R("s1", TsText((i - 1) * step), "humidity",
                     IF big /\ i = n THEN Num(105) ELSE Num(i % 3), battery(i))]
    IN  Filter(all, [idx \in DOMAIN all |-> kept(idx)], 1)
        \o [j \in 1..comp |->
              R("s2", <<0, 1, 0>>, "temperature", Num(25), IF bp = "none" THEN NaN ELSE Num(80))]

SeriesDatasets ==
    {SeriesDataset(n, step, skip, big, comp, bp) :
        n \in 0..MaxSeries, step \in {60, 720, 1440}, skip \in {0, 4},
        big \in BOOLEAN, comp \in {0, 1}, bp \in {"full", "none", "inner", "leading"}}

\* the names of the files of the raw directory, in sorted order
MaxFiles == 3

FileNames == 1..MaxFiles

-----------------------------------------------------------------------------
(* The run: run_pipeline.main calls transform_data, then validate_data *)

Init ==
    /\ \/ rawNone = FALSE /\ raw \in SmallDatasets \cup SeriesDatasets
       \/ rawNone = TRUE /\ raw = <<>>
    /\ pc = "start"
    /\ df = <<>>
    /\ out = <<>>
    /\ report \in {NoReport, StaleReport}
    /\ ret = "unset"
    /\ valueType = "float64"
    /\ rawDir = [f \in FileNames |-> "absent"]
    /\ checkpoint = {}
    /\ processed_files = {}
    /\ todo = <<>>
    /\ all_data = <<>>
    /\ stored = <<>>
    /\ written = {}
    /\ ckptAtStart = {}
    /\ lost = {}
    /\ runs = 0

\* transform_data lines 164-171: the guard on None and the empty dataset, then
\* drop_duplicates, dropna and the battery fill
TransformData ==
    /\ pc = "start"
    /\ IF rawNone \/ Len(raw) = 0
       THEN /\ out' = <<>>
            /\ pc' = "transformed"
            /\ df' = df
       ELSE /\ df' = FillBattery(DropNa(DropDuplicates(raw)))
            /\ pc' = "cleaned"
            /\ out' = out
    /\ UNCHANGED <<raw, rawNone, report, ret, valueType, ivars>>

\* line 172; calibrate multiplies the value of every row by a float, which
\* raises TypeError when the value is text
ApplyCalibration ==
    /\ pc = "cleaned"
    /\ IF valueType = "object" /\ Len(df) > 0
       THEN /\ pc' = "raised"
            /\ df' = df
       ELSE /\ df' = WithCol(df, "value_calibrated", ApplyCalibrationCol(df))
            /\ pc' = "calibrated"
    /\ UNCHANGED <<raw, rawNone, out, report, ret, valueType, ivars>>

\* line 173; a ValueError raised at line 79 ends transform_data and the run
ZscoreOutliers ==
    /\ pc = "calibrated"
    /\ \E res \in {OutlierStage(df)} :
          IF res.raised
          THEN /\ pc' = "raised"
               /\ df' = res.frame
          ELSE /\ pc' = "corrected"
               /\ df' = res.frame
    /\ UNCHANGED <<raw, rawNone, out, report, ret, valueType, ivars>>

\* line 174
FlagAnomaly ==
    /\ pc = "corrected"
    /\ df' = WithCol(df, "anomalous_reading", FlagAnomalyCol(df))
    /\ pc' = "flagged"
    /\ UNCHANGED <<raw, rawNone, out, report, ret, valueType, ivars>>

\* line 175
TimestampStage ==
    /\ pc = "flagged"
    /\ df' = TimestampProcessing(df)
    /\ pc' = "stamped"
    /\ UNCHANGED <<raw, rawNone, out, report, ret, valueType, ivars>>

\* lines 176-177: transform_data returns the aggregated frame
AggregationStage ==
    /\ pc = "stamped"
    /\ df' = Aggregations(df)
    /\ out' = df'
    /\ pc' = "transformed"
    /\ UNCHANGED <<raw, rawNone, report, ret, valueType, ivars>>

\* validate_data(transformed, report_path) in run_pipeline.main
ValidateData ==
    /\ pc = "transformed"
    /\ \E res \in {validate_data(out, report)} :
          /\ ret' = res.ret
          /\ report' = res.report
    /\ pc' = "validated"
    /\ UNCHANGED <<raw, rawNone, df, out, valueType, ivars>>

Next ==
    \/ TransformData
    \/ ApplyCalibration
    \/ ZscoreOutliers
    \/ FlagAnomaly
    \/ TimestampStage
    \/ AggregationStage
    \/ ValidateData

Spec == Init /\ [][Next]_vars

-----------------------------------------------------------------------------
(* Repeated pipeline runs over a raw directory: run_pipeline.main calls      *)
(* ingest_data, transform_data, validate_data and store_data.  A run whose   *)
(* transform_data raises ends there; the next run is a new process.          *)

MaxRuns == 2

\* what a file name of the raw directory can hold: nothing, bytes that are no
\* parquet file, a parquet file with other columns, or a parquet file of the
\* expected columns with readings of one type or of two
FileKinds == {"absent", "corrupt", "mismatch", "humid", "mixed"}

ReadableKinds == {"humid", "mixed"}

\* the dtypes of the column value that the files of a directory are written with
ValueTypes == {"float64", "int64", "int32", "object"}

\* pd.read_parquet(filepath) followed by df["source_file"] = filename
FileRows(f, kind) ==
    LET rows == IF kind = "humid"
                THEN <<R("s1", <<0, f, 0>>, "humidity", Num(40 + f), Num(90)),
                       R("s2", <<0, f, 0>>, "humidity", Num(50), Num(80))>>
                ELSE <<R("s1", <<0, f, 0>>, "humidity", Num(40), Num(90)),
                       R("s1", <<0, f, 0>>, "temperature", Num(25), Num(80))>>
    IN  WithCol(rows, "source_file", [i \in DOMAIN rows |-> f])

\* sorted([f for f in os.listdir(raw_dir) if f.endswith(".parquet")])
RECURSIVE SortedFiles(_, _)
SortedFiles(d, f) ==
    IF f > MaxFiles THEN <<>>
    ELSE (IF d[f] # "absent" THEN <<f>> ELSE <<>>) \o SortedFiles(d, f + 1)

\* pd.concat(all_data, ignore_index=True), or pd.DataFrame() for no frame
RECURSIVE Concat(_, _)
Concat(d, names) ==
    IF names = <<>> THEN <<>>
    ELSE FileRows(Head(names), d[Head(names)]) \o Concat(d, Tail(names))

\* a variant of the loop body that records a file as processed before it is
\* read; C16 tells the two apart
ReadFile_eager(f, kind, seen, data) ==
    IF f \in seen
    THEN [processed_files |-> seen, all_data |-> data]
    ELSE IF kind \in ReadableKinds
    THEN [processed_files |-> seen \cup {f}, all_data |-> Append(data, f)]
    ELSE [processed_files |-> seen \cup {f}, all_data |-> data]

\* a variant of the loop body without the test of line 44, which reads a
\* processed file again; C18 tells the two apart
ReadFile_again(f, kind, seen, data) ==
    IF kind \in ReadableKinds
    THEN [processed_files |-> seen \cup {f}, all_data |-> Append(data, f)]
    ELSE [processed_files |-> seen, all_data |-> data]

\* the body of the loop of ingest_data, lines 41-82, for the file f holding
\* kind: a processed file is skipped; DESCRIBE raises on a corrupt file and the
\* except clause logs it; a schema mismatch is logged; otherwise the frame is
\* appended and the name added to processed_files
ReadFile(f, kind, seen, data) ==
    IF f \in seen
    THEN [processed_files |-> seen, all_data |-> data]
    ELSE IF kind \in ReadableKinds
    THEN [processed_files |-> seen \cup {f}, all_data |-> Append(data, f)]
    ELSE [processed_files |-> seen, all_data |-> data]

\* the paths store_data writes for a frame: one per (date, sensor_id, reading_type)
StorePaths(frame) == {<<frame[i].date, frame[i].sensor_id, frame[i].reading_type>> : i \in DOMAIN frame}

\* store_data(df, processed_dir): every path of the frame is (over)written with
\* the rows of its group; a row is kept as <<source_file, timestamp>>
store_data(frame, st) ==
    LET paths == StorePaths(frame)
        rowsAt(p) == {<<frame[i].source_file, frame[i].timestamp>> :
                         i \in {j \in DOMAIN frame :
                                   <<frame[j].date, frame[j].sensor_id, frame[j].reading_type>> = p}}
    IN  [p \in (DOMAIN st) \cup paths |-> IF p \in paths THEN rowsAt(p) ELSE st[p]]

IngestInit ==
    /\ raw = <<>>
    /\ rawNone = FALSE
    /\ pc = "begin"
    /\ df = <<>>
    /\ out = <<>>
    /\ report = NoReport
    /\ ret = "unset"
    /\ valueType \in ValueTypes
    /\ rawDir \in [FileNames -> FileKinds]
    /\ checkpoint = {}
    /\ processed_files = {}
    /\ todo = <<>>
    /\ all_data = <<>>
    /\ stored = <<>>
    /\ written = {}
    /\ ckptAtStart = {}
    /\ lost = {}
    /\ runs = 1

\* ingest_data lines 28-38: the checkpoint is loaded and the directory listed
IngestStart ==
    /\ pc = "begin"
    /\ processed_files' = checkpoint
    /\ ckptAtStart' = checkpoint
    /\ todo' = SortedFiles(rawDir, 1)
    /\ all_data' = <<>>
    /\ pc' = "files"
    /\ UNCHANGED <<raw, rawNone, df, out, report, ret, valueType, rawDir, checkpoint,
                   stored, written, lost, runs>>

\* one pass of the loop of line 40
IngestFile ==
    /\ pc = "files"
    /\ todo # <<>>
    /\ \E res \in {ReadFile(Head(todo), rawDir[Head(todo)], processed_files, all_data)} :
          /\ processed_files' = res.processed_files
          /\ all_data' = res.all_data
    /\ todo' = Tail(todo)
    /\ UNCHANGED <<raw, rawNone, pc, df, out, report, ret, valueType, rawDir, checkpoint,
                   stored, written, ckptAtStart, lost, runs>>

\* lines 84-114: the frames are concatenated, the checkpoint is saved and the
\* result returned to main, which passes it to transform_data
IngestFinish ==
    /\ pc = "files"
    /\ todo = <<>>
    /\ raw' = Concat(rawDir, all_data)
    /\ checkpoint' = processed_files
    /\ pc' = "start"
    /\ UNCHANGED <<rawNone, df, out, report, ret, valueType, rawDir, processed_files,
                   todo, all_data, stored, written, ckptAtStart, lost, runs>>

\* run_pipeline.main line 20: store_data(transformed, args.processed_dir)
StoreData ==
    /\ pc = "validated"
    /\ stored' = store_data(out, stored)
    /\ written' = written \cup {out[i].source_file : i \in DOMAIN out}
    /\ pc' = "stored"
    /\ UNCHANGED <<raw, rawNone, df, out, report, ret, valueType, rawDir, checkpoint,
                   processed_files, todo, all_data, ckptAtStart, lost, runs>>

\* between two runs a new file arrives in the raw directory
NewFile ==
    /\ pc \in {"stored", "raised"}
    /\ \E f \in FileNames, kind \in FileKinds \ {"absent"} :
          /\ rawDir[f] = "absent"
          /\ rawDir' = [rawDir EXCEPT ![f] = kind]
    /\ UNCHANGED <<raw, rawNone, pc, df, out, report, ret, valueType, checkpoint,
                   processed_files, todo, all_data, stored, written, ckptAtStart, lost, runs>>

\* the pipeline is started again, in a new process, after a run that ended or
\* that failed in transform_data
NextRun ==
    /\ pc \in {"stored", "raised"}
    /\ runs < MaxRuns
    /\ runs' = runs + 1
    /\ lost' = IF pc = "raised" THEN lost \cup {all_data[i] : i \in DOMAIN all_data} ELSE lost
    /\ pc' = "begin"
    /\ raw' = <<>>
    /\ df' = <<>>
    /\ out' = <<>>
    /\ ret' = "unset"
    /\ processed_files' = {}
    /\ todo' = <<>>
    /\ all_data' = <<>>
    /\ UNCHANGED <<rawNone, report, valueType, rawDir, checkpoint, stored, written,
                   ckptAtStart>>

IngestNext ==
    \/ IngestStart
    \/ IngestFile
    \/ IngestFinish
    \/ TransformData
    \/ ApplyCalibration
    \/ ZscoreOutliers
    \/ FlagAnomaly
    \/ TimestampStage
    \/ AggregationStage
    \/ ValidateData
    \/ StoreData
    \/ NewFile
    \/ NextRun

IngestSpec == IngestInit /\ [][IngestNext]_vars

-----------------------------------------------------------------------------
(* Properties.  The statistics they compare against are computed here from   *)
(* the rows, apart from the operators of the stages.                         *)

\* transform_data has returned
Returned == pc \in {"transformed", "validated"}

\* transform_data has returned or raised
TransformEnded == Returned \/ pc = "raised"

\* the outlier stage has just returned: df carries zscore and value_corrected
AfterOutlierStage == pc = "corrected"

Complete(r) ==
    /\ r.sensor_id # NullStr
    /\ r.timestamp # NullTs
    /\ r.reading_type # NullStr
    /\ ~IsNaN(r.value)

FirstOccurrence(i) == \A j \in 1..(i - 1) : Key(raw[j]) # Key(raw[i])

\* the keys whose first-occurring raw row is complete
ExpectedKeys == {Key(raw[i]) : i \in {j \in DOMAIN raw : FirstOccurrence(j) /\ Complete(raw[j])}}

\* the arithmetic mean of a non-empty sequence
ArithMean(s) == NScale(SumSeq(s), 1, Len(s))

\* the population variance (denominator = size) of a non-empty sequence
PopVariance(s) == NScale(SumSeq(SqDev(s, ArithMean(s))), 1, Len(s))

\* the rows of df with reading_type t
RowsOfType(t) == {i \in DOMAIN df : df[i].reading_type = t}

\* value_calibrated over the reading_type group t of df
GroupOf(t) ==
    LET member(j) == df[j].reading_type = t
    IN  Col(Filter(df, [idx \in DOMAIN df |-> member(idx)], 1), "value_calibrated")

\* [mu - 3 sigma, mu + 3 sigma] with the population statistics of s
ThreeSigma(s) ==
    LET mu    == ArithMean(s)
        sigma == NSqrt(PopVariance(s))
    IN  [lo |-> NSub(mu, NScale(sigma, 3, 1)), hi |-> NAdd(mu, NScale(sigma, 3, 1))]

Degenerate(s) == Len(s) < 3 \/ PopVariance(s) = Zero

\* C1: for every raw dataset transform_data returns an output that holds
\* exactly one row per key, exactly for the keys whose first-occurring raw row
\* has non-null sensor_id, timestamp, reading_type and value.
C1_OneRowPerCompleteKey ==
    TransformEnded =>
        /\ pc # "raised"
        /\ \A k \in ExpectedKeys : Cardinality({i \in DOMAIN out : Key(out[i]) = k}) = 1
        /\ \A i \in DOMAIN out : Key(out[i]) \in ExpectedKeys

\* C2: after the outlier stage, every row of a group with at least 3 members
\* and a positive population standard deviation has value_corrected equal to
\* value_calibrated clipped to [mu - 3 sigma, mu + 3 sigma], with mu and sigma
\* the population mean and standard deviation of value_calibrated over the
\* group; so value_corrected lies in that interval.
C2_ClippedToThreeSigma ==
    AfterOutlierStage =>
        \A t \in ReadingTypes(df) :
            ~Degenerate(GroupOf(t)) =>
                \E b \in {ThreeSigma(GroupOf(t))} :
                    \A i \in RowsOfType(t) :
                        LET x == df[i].value_calibrated
                        IN  /\ df[i].value_corrected =
                                   (IF NLt(x, b.lo) THEN b.lo ELSE IF NLt(b.hi, x) THEN b.hi ELSE x)
                            /\ NLe(b.lo, df[i].value_corrected)
                            /\ NLe(df[i].value_corrected, b.hi)

\* a member of a group of at least 3 was clipped: its value_corrected is the
\* upper bound, an irrational number below its value_calibrated
C2_Witness ==
    /\ AfterOutlierStage
    /\ \E i \in DOMAIN df :
          /\ ~Degenerate(GroupOf(df[i].reading_type))
          /\ NLt(df[i].value_corrected, df[i].value_calibrated)
          /\ ~IsRational(df[i].value_corrected)

\* C3: for every reading_type group with zero variance or fewer than 3
\* members the outlier stage raises no error, sets zscore to 0 and leaves
\* value_corrected equal to value_calibrated for every member.
C3_DegenerateGroupNoOp ==
    (pc \in {"raised", "corrected"}) =>
        \A t \in ReadingTypes(df) :
            Degenerate(GroupOf(t)) =>
                /\ pc # "raised"
                /\ \A i \in RowsOfType(t) :
                      /\ df[i].zscore = Zero
                      /\ df[i].value_corrected = df[i].value_calibrated

\* the flag the range table gives the calibrated value of row r
OutsideRange(r) ==
    /\ r.reading_type \in RangedTypes
    /\ ~IsNaN(r.value_calibrated)
    /\ \/ NLt(r.value_calibrated, EXPECTED_RANGES(r.reading_type).min)
       \/ NLt(EXPECTED_RANGES(r.reading_type).max, r.value_calibrated)

\* C4: every output row of transform_data has anomalous_reading true exactly
\* when its reading_type has a configured range and value_calibrated is
\* non-null and strictly below min or strictly above max; the flag stage
\* leaves value_corrected as it was.
C4_AnomalyFromCalibrated ==
    [][ /\ pc' = "flagged" => Col(df', "value_corrected") = Col(df, "value_corrected")
        /\ pc' = "transformed" =>
               \A i \in DOMAIN out' : out'[i].anomalous_reading = OutsideRange(out'[i]) ]_vars

\* an output row is flagged although its clipped value is inside the range
C4_Witness ==
    /\ pc = "transformed"
    /\ \E i \in DOMAIN out :
          /\ out[i].anomalous_reading
          /\ out[i].value_corrected # out[i].value_calibrated
          /\ NLe(EXPECTED_RANGES(out[i].reading_type).min, out[i].value_corrected)
          /\ NLe(out[i].value_corrected, EXPECTED_RANGES(out[i].reading_type).max)

\* the output rows that share the (sensor_id, reading_type, date) key of row i
SameDay(i) ==
    LET member(j) == /\ out[j].sensor_id = out[i].sensor_id
                     /\ out[j].reading_type = out[i].reading_type
                     /\ out[j].date = out[i].date
    IN  Filter(out, [idx \in DOMAIN out |-> member(idx)], 1)

\* C5: in every output row of transform_data daily_avg is the arithmetic mean
\* of value_corrected over exactly the rows that share the row's
\* (sensor_id, reading_type, date) key, so the rows of a key agree on it.
C5_DailyAvgIsMeanOfKey ==
    pc = "transformed" =>
        \A i \in DOMAIN out :
            out[i].daily_avg = ArithMean(Col(SameDay(i), "value_corrected"))

\* a key with two rows of different value_corrected, one of them clipped
C5_Witness ==
    /\ pc = "transformed"
    /\ \E i \in DOMAIN out :
          /\ out[i].value_corrected # out[i].value_calibrated
          /\ Len(SameDay(i)) >= 2
          /\ out[i].daily_avg # out[i].value_corrected

\* the distinct dates of the series k = <<sensor_id, reading_type>> in the output
SeriesDates(k) ==
    {out[i].date : i \in {j \in DOMAIN out : <<out[j].sensor_id, out[j].reading_type>> = k}}

\* ascending order of the date texts
DateBefore(a, b) == a[1] < b[1] \/ (a[1] = b[1] /\ a[2] < b[2])

\* the position of date d in the sorted dates of series k, counted from 0
Position(k, d) == Cardinality({e \in SeriesDates(k) : DateBefore(e, d)})

\* daily_avg of the entry of series k at date d
EntryAvg(k, d) ==
    out[CHOOSE i \in DOMAIN out :
            <<out[i].sensor_id, out[i].reading_type>> = k /\ out[i].date = d].daily_avg

RECURSIVE SumEntries(_, _)
SumEntries(k, D) ==
    IF D = {} THEN Zero
    ELSE LET d == CHOOSE e \in D : TRUE
         IN  NAdd(EntryAvg(k, d), SumEntries(k, D \ {d}))

MeanEntries(k, D) == NScale(SumEntries(k, D), 1, Cardinality(D))

\* the entries at the positions max(0, i-6)..i, for the entry at date d
WindowOf(k, d) ==
    {e \in SeriesDates(k) :
        /\ Position(k, e) <= Position(k, d)
        /\ Position(k, e) >= Position(k, d) - 6}

\* C6: in every output row rolling_7d is the mean of daily_avg over the
\* entries at positions max(0, i-6)..i of the row's (sensor_id, reading_type)
\* series sorted by date, i being the position of the row's date; the first
\* entry has its own daily_avg, and the last entry of a series of at most 7
\* dates has the mean of all its daily_avg values.
C6_RollingOverSevenEntries ==
    pc = "transformed" =>
        \A i \in DOMAIN out :
            LET k == <<out[i].sensor_id, out[i].reading_type>>
                d == out[i].date
                n == Cardinality(SeriesDates(k))
            IN  /\ out[i].rolling_7d = MeanEntries(k, WindowOf(k, d))
                /\ Position(k, d) = 0 => out[i].rolling_7d = out[i].daily_avg
                /\ (n <= 7 /\ Position(k, d) = n - 1) =>
                       out[i].rolling_7d = MeanEntries(k, SeriesDates(k))

\* a series of more than 7 dates whose last entry averages its last 7 entries
\* only: the mean of the whole series is another number
C6_Witness ==
    /\ pc = "transformed"
    /\ \E i \in DOMAIN out :
          LET k == <<out[i].sensor_id, out[i].reading_type>>
              n == Cardinality(SeriesDates(k))
          IN  /\ n > 7
              /\ Position(k, out[i].date) = n - 1
              /\ out[i].rolling_7d # MeanEntries(k, SeriesDates(k))

\* C7: after transform_data on a non-empty raw dataset, which has the column
\* battery_level, no output row has a null battery_level.
C7_NoNullBattery ==
    (pc = "transformed" /\ ~rawNone /\ Len(raw) > 0) =>
        \A i \in DOMAIN out : ~IsNaN(out[i].battery_level)

\* C8: transform_data does not raise on an empty dataset: a null or zero-row
\* input, and a raw dataset that deduplication and the null filter leave
\* without rows, end in an empty output.
C8_EmptyNeverRaises ==
    (TransformEnded /\ ExpectedKeys = {}) => (pc # "raised" /\ out = <<>>)

\* C9: validate_data on an empty dataset leaves the report artifact as it was
\* and returns an empty table; on a non-empty dataset it writes the report and
\* returns something else, so the caller can tell the two apart.
C9_EmptyValidationTouchesNothing ==
    [][ pc' = "validated" =>
            IF Len(out) = 0
            THEN report' = report /\ ret' = "empty_frame"
            ELSE report'.exists /\ ~report'.stale /\ ret' # "empty_frame" ]_vars

\* validation of an empty dataset has returned and the report of an earlier
\* run is still in place
C9_Witness ==
    /\ pc = "validated"
    /\ Len(out) = 0
    /\ ret = "empty_frame"
    /\ report = StaleReport

\* the hour buckets observed for the pair k = <<sensor_id, reading_type>>: the
\* hours since the epoch of the timestamps that are a timestamp text
HourBuckets(k) ==
    {(out[i].timestamp[1] * 1440 + out[i].timestamp[2] * 60 + out[i].timestamp[3]) \div 60 :
        i \in {j \in DOMAIN out : /\ <<out[j].sensor_id, out[j].reading_type>> = k
                                  /\ Len(out[j].timestamp) = 3}}

GapsRows(k) == {g \in report.gaps : g.sensor_id = k[1] /\ g.reading_type = k[2]}

\* C10: for every (sensor_id, reading_type) pair with a parsable timestamp
\* the gaps result has one row, with expected_hours the number of hour
\* buckets from the earliest to the latest inclusive, actual_hours the number
\* of distinct buckets observed and missing_hours their difference, never
\* negative; a single observation gives missing_hours 0, and the hours 0 to 5
\* without hour 3 give 6, 5 and 1.
C10_GapsCounts ==
    (pc = "validated" /\ ret = "none") =>
        \A k \in {<<out[i].sensor_id, out[i].reading_type>> : i \in DOMAIN out} :
            LET B == HourBuckets(k)
            IN  B # {} =>
                    /\ Cardinality(GapsRows(k)) = 1
                    /\ \A g \in GapsRows(k) :
                          /\ g.expected_hours = SetMax(B) - SetMin(B) + 1
                          /\ g.actual_hours = Cardinality(B)
                          /\ g.missing_hours = g.expected_hours - g.actual_hours
                          /\ g.missing_hours >= 0
                          /\ Cardinality(B) = 1 => g.missing_hours = 0
                          /\ B = {0, 1, 2, 4, 5} =>
                                 /\ g.expected_hours = 6
                                 /\ g.actual_hours = 5
                                 /\ g.missing_hours = 1

\* the report of a pair observed in the hours 0, 1, 2, 4 and 5
C10_Witness ==
    /\ pc = "validated"
    /\ \E k \in {<<out[i].sensor_id, out[i].reading_type>> : i \in DOMAIN out} :
          /\ HourBuckets(k) = {0, 1, 2, 4, 5}
          /\ \E g \in GapsRows(k) : g.missing_hours = 1

\* the files a run of ingest_data has read
ReadNow == {all_data[i] : i \in DOMAIN all_data}

\* the readable files of the raw directory that the checkpoint loaded by the
\* current run does not name
NewReadable == {f \in FileNames : rawDir[f] \in ReadableKinds /\ f \notin ckptAtStart}

\* C16: a run of ingest_data returns the rows of exactly the readable files
\* that the checkpoint at its start does not name, and the checkpoint it writes
\* is the previous one plus exactly those files; a corrupt file and a file with
\* other columns never get into the checkpoint, so every run tries them again,
\* and they do not keep the files after them from being read.
C16_CheckpointIsPreviousPlusRead ==
    /\ pc = "start" =>
           /\ {raw[i].source_file : i \in DOMAIN raw} = NewReadable
           /\ checkpoint = ckptAtStart \cup NewReadable
    /\ \A f \in FileNames :
           rawDir[f] \notin ReadableKinds => f \notin checkpoint \cup processed_files

\* a second run has returned the rows of a new file that comes after an
\* unreadable one, while the file of the first run is skipped
C16_Witness ==
    /\ pc = "start"
    /\ runs >= 2
    /\ ckptAtStart # {}
    /\ \E f \in FileNames, g \in ReadNow :
          /\ f < g
          /\ rawDir[f] \in {"corrupt", "mismatch"}
          /\ \E i \in DOMAIN raw : raw[i].source_file = g

\* the files read by the current run, when transform_data has raised in it
FailedNow == IF pc = "raised" THEN ReadNow ELSE {}

\* C18: the checkpoint names the files of a run as soon as ingestion has
\* returned, before transform_data, validate_data and store_data; the files
\* of a run that failed after ingestion stay in the checkpoint, no later run
\* reads them and no row of them is ever written to processed storage.
C18_FailedRunFilesAreSkipped ==
    /\ pc \notin {"begin", "files"} => ReadNow \subseteq checkpoint
    /\ \A f \in lost \cup FailedNow : f \in checkpoint /\ f \notin written
    /\ \A f \in lost : f \notin ReadNow

\* a run failed after ingestion and a later run has stored other files
C18_Witness ==
    /\ pc = "stored"
    /\ lost # {}
    /\ written # {}
    /\ lost \subseteq checkpoint

\* C11: invalid_value_type is 0 when the column value holds numbers, stored
\* as floats or as integers of any width, and the row count when it holds text.
C11_InvalidValueTypeCount ==
    (pc = "validated" /\ ret = "none") =>
        report.invalid_value_type = (IF valueType = "object" THEN Len(out) ELSE 0)

\* the raw timestamp text of row r names an instant
Parses(r) == Len(r.timestamp) = 3

\* the instant of a timestamp text read as UTC, in minutes since the epoch
UtcMinutes(r) == r.timestamp[1] * 1440 + r.timestamp[2] * 60 + r.timestamp[3]

C13_UnparsableGivesNulls ==
    /\ pc = "transformed" =>
           \A i \in DOMAIN out :
               ~Parses(out[i]) =>
                   /\ out[i].timestamp_ist = NaT
                   /\ IsNaN(out[i].timestamp_iso)
                   /\ IsNaN(out[i].date)
                   /\ out[i].hour = NaT
    /\ (pc = "validated" /\ ret = "none") =>
           report.unparsable = Cardinality({i \in DOMAIN out : ~Parses(out[i])})

C15_CalibratedIsLinear ==
    (pc = "calibrated") =>
        \A i \in DOMAIN df :
            LET t == df[i].reading_type
                c == CALIBRATION(t)
            IN  /\ df[i].value_calibrated =
                       (IF t \in {"temperature", "humidity", "soil_moisture", "light_intensity"}
                        THEN NAdd(NScale(df[i].value, c.multiplier[1], c.multiplier[3]), c.offset)
                        ELSE df[i].value)
                /\ (t = "temperature" /\ df[i].value = Num(25)) =>
                       df[i].value_calibrated = Rat(2505, 100)

\* a temperature reading of 25.0 calibrated to 25.05 next to a reading of a
\* type without configuration
C15_Witness ==
    /\ pc = "calibrated"
    /\ \E i \in DOMAIN df :
          /\ df[i].reading_type = "temperature"
          /\ df[i].value = Num(25)
          /\ df[i].value_calibrated = Rat(2505, 100)
    /\ \E i \in DOMAIN df :
          /\ df[i].reading_type = "co2"
          /\ df[i].value_calibrated = df[i].value

\* battery_level of the raw rows that deduplication and the null filter keep
BatteryBefore ==
    Col(Filter(raw, [idx \in DOMAIN raw |-> FirstOccurrence(idx) /\ Complete(raw[idx])], 1),
        "battery_level")

\* C17: after the battery fill, in row order over the whole dataset, a
\* non-null battery value is unchanged, a null has the nearest preceding
\* non-null value, a null without one has the nearest following non-null
\* value, and only a column without any value stays at its (null) mean;
\* [90, null, null, 70] becomes [90, 90, 90, 70].
C17_BatteryFillPrecedence ==
    pc = "cleaned" =>
        LET b == BatteryBefore
            before(i) == {j \in 1..(i - 1) : ~IsNaN(b[j])}
            after(i)  == {j \in (i + 1)..Len(b) : ~IsNaN(b[j])}
        IN  /\ Len(df) = Len(b)
            /\ \A i \in DOMAIN b :
                  df[i].battery_level =
                      (IF ~IsNaN(b[i]) THEN b[i]
                       ELSE IF before(i) # {} THEN b[SetMax(before(i))]
                       ELSE IF after(i) # {} THEN b[SetMin(after(i))]
                       ELSE NaN)
            /\ b = <<Num(90), NaN, NaN, Num(70)>> =>
                   Col(df, "battery_level") = <<Num(90), Num(90), Num(90), Num(70)>>

\* the column [90, null, null, 70] filled to [90, 90, 90, 70]
C17_Witness ==
    /\ pc = "cleaned"
    /\ BatteryBefore = <<Num(90), NaN, NaN, Num(70)>>
    /\ Col(df, "battery_level") = <<Num(90), Num(90), Num(90), Num(70)>>

====
